---- MODULE Spec2Model ----
(***************************************************************************)
(* A model of jonvaldes/termo (src/termo.go, lines 1-385): the framebuffer *)
(* of character cells, its drawing primitives, the remembered cursor       *)
(* position and the Flush serializer; the raw-mode lifecycle of the        *)
(* terminal (Init, Stop and the cursor and mouse calls); the scan codes    *)
(* and the key read loop.                                                  *)
(*                                                                         *)
(* Conventions.  A rune is an integer code point.  A Go string is modelled *)
(* as the sequence of code points that `range` yields for it (valid UTF-8  *)
(* only); its len() is the number of bytes of its UTF-8 encoding.  Go      *)
(* slices are 0-based, TLA+ sequences 1-based: f.chars[i] of the source is *)
(* chars[i + 1] here.  Standard output is modelled by `out`, the bytes the *)
(* last call printed.                                                      *)
(***************************************************************************)
EXTENDS Integers, Sequences, FiniteSets, TLC

VARIABLES f, cursorPos, out, last, n, written, cursorArg

\* The terminal that standard input and output are attached to, and what
\* Init keeps of it: whether standard input is a terminal, the mode of the
\* terminal, whether it shows the cursor and reports the mouse; the saved
\* state oldTermState; and, as history, the value Init returned, where the
\* program is in the Init .. Stop lifecycle, and the terminal before Init.
VARIABLES isTerminal, termMode, cursorVisible, mouseReporting, oldTermState,
          initRet, phase, before

\* The key read loop: the position of its goroutine, the scan code and the
\* error it holds, the two channels with their capacities, what the consumer
\* has received from each; as history, the outcome of every read of standard
\* input.  coords is what the last MouseCoords call returned.
VARIABLES pc, scan, readErr, keyChan, errChan, keyCap, errCap, keyRecv, errRecv,
          reads, coords

fbVars == <<f, cursorPos, out, last, n, written, cursorArg>>

termVars == <<isTerminal, termMode, cursorVisible, mouseReporting, oldTermState,
              initRet, phase, before>>

keyVars == <<pc, scan, readErr, keyChan, errChan, keyCap, errCap, keyRecv, errRecv,
             reads, coords>>

vars == <<fbVars, termVars, keyVars>>

----------------------------------------------------------------------------
(* Bounds of the model.                                                    *)

\* Spec: framebuffers of 0..MaxW columns and 0..MaxH rows, MaxSetup calls
\* of Set before the call under study.
MaxW == 2
MaxH == 2
MaxSetup == 1
\* Strings passed to the text calls hold at most MaxLen code points.
MaxLen == 3
\* SpecFlush: framebuffers of 0..FlushMaxW columns and 0..FlushMaxH rows,
\* FlushMaxOps calls.
FlushMaxW == 2
FlushMaxH == 2
FlushMaxOps == 3
\* SpecScenario: ScenarioOps calls.
ScenarioOps == 4
\* SpecTerm: TermMaxOps calls between Init and Stop.
TermMaxOps == 3
\* SpecKeys: MaxReads reads of standard input, channels of capacity 0..MaxCap.
MaxReads == 3
MaxCap == 1

----------------------------------------------------------------------------
(* Attributes, colours and cell states.                                    *)

AttrNone == 0
AttrBold == 1

ColorBlack == 30
ColorRed == ColorBlack + 1
ColorBlue == ColorBlack + 4
ColorGray == ColorBlack + 7
ColorDefault == 39

Light(c) == c + 60

\* A background that forgets the + 10.
backgroundSame(c) == c

background(c) == c + 10

CellState(a, fg, bg) == [Attrib |-> a, FGColor |-> fg, BGColor |-> bg]

StateDefault == CellState(AttrNone, ColorDefault, ColorDefault)
BoldWhiteOnBlack == CellState(AttrBold, Light(ColorGray), ColorBlack)
BoldRedOnBlue == CellState(AttrBold, ColorRed, ColorBlue)

cell(s, r) == [state |-> s, r |-> r]

\* The zero value of a cell, as make([]cell, w*h) fills the slice.
ZeroCell == cell(CellState(0, 0, 0), 0)

\* ' ' and '\n'.
Space == 32
Newline == 10

singleWidthCharset == <<9472, 9474, 9484, 9488, 9492, 9496>>
doubleWidthCharset == <<9552, 9553, 9556, 9559, 9562, 9565>>

----------------------------------------------------------------------------
(* The framebuffer and its three cell primitives.                          *)

Framebuffer(w, h, chars) == [w |-> w, h |-> h, chars |-> chars]

\* Get: the stored cell, or (' ', default state) outside the grid.
Get(fb, x, y) ==
    IF x < 0 \/ y < 0 \/ x >= fb.w \/ y >= fb.h
    THEN cell(CellState(AttrNone, ColorDefault, ColorDefault), Space)
    ELSE fb.chars[x + y * fb.w + 1]

\* A Set that does not check the right edge: x = fb.w lands on the next row.
SetNoRightEdge(fb, x, y, s, r) ==
    IF x < 0 \/ y < 0 \/ y >= fb.h
    THEN fb
    ELSE [fb EXCEPT !.chars[x + y * fb.w + 1] = cell(s, r)]

\* Set: replaces the glyph and the state of the cell; nothing outside the grid.
Set(fb, x, y, s, r) ==
    IF x < 0 \/ y < 0 \/ x >= fb.w \/ y >= fb.h
    THEN fb
    ELSE [fb EXCEPT !.chars[x + y * fb.w + 1] = cell(s, r)]

\* A SetRune that resets the state of the cell as well.
SetRuneResetsState(fb, x, y, r) ==
    IF x < 0 \/ y < 0 \/ x >= fb.w \/ y >= fb.h
    THEN fb
    ELSE [fb EXCEPT !.chars[x + y * fb.w + 1] = cell(StateDefault, r)]

\* SetRune: replaces the glyph only.
SetRune(fb, x, y, r) ==
    IF x < 0 \/ y < 0 \/ x >= fb.w \/ y >= fb.h
    THEN fb
    ELSE [fb EXCEPT !.chars[x + y * fb.w + 1].r = r]

\* The body of AttribRect's inner loop: replaces the state only.
AttribCell(fb, x, y, s) ==
    IF x >= 0 /\ y >= 0 /\ x < fb.w /\ y < fb.h
    THEN [fb EXCEPT !.chars[x + y * fb.w + 1].state = s]
    ELSE fb

----------------------------------------------------------------------------
(* Every drawing call is a loop that makes primitive calls.  An operator   *)
(* XxxCalls gives the sequence of primitive calls the loop makes, in       *)
(* order; Run applies them to the framebuffer.                             *)

SetCall(x, y, s, r) == [p |-> "Set", x |-> x, y |-> y, s |-> s, r |-> r]
SetRuneCall(x, y, r) == [p |-> "SetRune", x |-> x, y |-> y, s |-> StateDefault, r |-> r]
AttribCall(x, y, s) == [p |-> "Attrib", x |-> x, y |-> y, s |-> s, r |-> 0]

Step(fb, c) ==
    IF c.p = "Set" THEN Set(fb, c.x, c.y, c.s, c.r)
    ELSE IF c.p = "SetRune" THEN SetRune(fb, c.x, c.y, c.r)
    ELSE AttribCell(fb, c.x, c.y, c.s)

RECURSIVE RunFrom(_, _, _)
RunFrom(fb, calls, k) ==
    IF k > Len(calls) THEN fb ELSE RunFrom(Step(fb, calls[k]), calls, k + 1)

Run(fb, calls) == RunFrom(fb, calls, 1)

\* The loops with x <= x0+w for x < x0+w: one column too many.
RectLoopInclusive(x0, y0, w, h) ==
    IF w + 1 <= 0 \/ h <= 0
    THEN << >>
    ELSE [i \in 1..((w + 1) * h) |->
            <<x0 + ((i - 1) % (w + 1)), y0 + ((i - 1) \div (w + 1))>>]

\* for y := y0; y < y0+h; y++ { for x := x0; x < x0+w; x++ { ... } }:
\* the <<x, y>> the body sees, in order.
RectLoop(x0, y0, w, h) ==
    IF w <= 0 \/ h <= 0
    THEN << >>
    ELSE [i \in 1..(w * h) |-> <<x0 + ((i - 1) % w), y0 + ((i - 1) \div w)>>]

SetRectCalls(x0, y0, w, h, s, r) ==
    LET L == RectLoop(x0, y0, w, h)
    IN  [i \in 1..Len(L) |-> SetCall(L[i][1], L[i][2], s, r)]

AttribRectCalls(x0, y0, w, h, s) ==
    LET L == RectLoop(x0, y0, w, h)
    IN  [i \in 1..Len(L) |-> AttribCall(L[i][1], L[i][2], s)]

\* The earlier variant of ASCIIRect (lines 716-754), which compares with 0.
ASCIIRectGlyphOrigin(c, x0, y0, w, h, clearInside, x, y) ==
    IF x = 0
    THEN (IF y = 0 THEN c[3] ELSE IF y = y0 + h - 1 THEN c[5] ELSE c[2])
    ELSE IF x = x0 + w - 1
    THEN (IF y = 0 THEN c[4] ELSE IF y = y0 + h - 1 THEN c[6] ELSE c[2])
    ELSE IF y = 0 \/ y = y0 + h - 1 THEN c[1]
    ELSE IF ~clearInside THEN -1 ELSE Space

\* The glyph ASCIIRect chooses for <<x, y>>; -1 stands for `continue`.
\* c[i] of the source is c[i + 1] here.
ASCIIRectGlyph(c, x0, y0, w, h, clearInside, x, y) ==
    IF x = x0
    THEN (IF y = y0 THEN c[3] ELSE IF y = y0 + h - 1 THEN c[5] ELSE c[2])
    ELSE IF x = x0 + w - 1
    THEN (IF y = y0 THEN c[4] ELSE IF y = y0 + h - 1 THEN c[6] ELSE c[2])
    ELSE IF y = y0 \/ y = y0 + h - 1 THEN c[1]
    ELSE IF ~clearInside THEN -1 ELSE Space

ASCIIRectCalls(x0, y0, w, h, doubleWidth, clearInside) ==
    LET c == IF doubleWidth THEN doubleWidthCharset ELSE singleWidthCharset
        L == RectLoop(x0, y0, w, h)
        G(i) == ASCIIRectGlyph(c, x0, y0, w, h, clearInside, L[i][1], L[i][2])
        All == [i \in 1..Len(L) |-> SetRuneCall(L[i][1], L[i][2], G(i))]
    IN  SelectSeq(All, LAMBDA k : k.r # -1)

\* len(s) of a Go string: the bytes of its UTF-8 encoding.
RuneLen(r) == IF r < 128 THEN 1 ELSE IF r < 2048 THEN 2 ELSE IF r < 65536 THEN 3 ELSE 4

RECURSIVE ByteLen(_)
ByteLen(t) == IF t = << >> THEN 0 ELSE RuneLen(Head(t)) + ByteLen(Tail(t))

\* SetText: i counts the code points since the last '\n', y0 the rows.
RECURSIVE SetTextFrom(_, _, _, _, _)
SetTextFrom(t, k, x0, i, y0) ==
    IF k > Len(t) THEN << >>
    ELSE IF t[k] = Newline THEN SetTextFrom(t, k + 1, x0, 0, y0 + 1)
    ELSE <<SetRuneCall(x0 + i, y0, t[k])>> \o SetTextFrom(t, k + 1, x0, i + 1, y0)

\* The earlier variant of SetText (lines 759-765), which knows no '\n'.
SetTextCallsOneLine(x0, y0, t) ==
    [k \in 1..Len(t) |-> SetRuneCall(x0 + (k - 1), y0, t[k])]

SetTextCalls(x0, y0, t) == SetTextFrom(t, 1, x0, 0, y0)

RECURSIVE AttribTextFrom(_, _, _, _, _, _)
AttribTextFrom(t, k, x0, i, y0, s) ==
    IF k > Len(t) THEN << >>
    ELSE IF t[k] = Newline THEN AttribTextFrom(t, k + 1, x0, 0, y0 + 1, s)
    ELSE <<SetCall(x0 + i, y0, s, t[k])>> \o AttribTextFrom(t, k + 1, x0, i + 1, y0, s)

AttribTextCalls(x0, y0, s, t) == AttribTextFrom(t, 1, x0, 0, y0, s)

\* strings.Split(t, "\n"): the lines of t, at least one.
RECURSIVE SplitFrom(_, _, _)
SplitFrom(t, k, cur) ==
    IF k > Len(t) THEN <<cur>>
    ELSE IF t[k] = Newline THEN <<cur>> \o SplitFrom(t, k + 1, << >>)
    ELSE SplitFrom(t, k + 1, Append(cur, t[k]))

Split(t) == SplitFrom(t, 1, << >>)

\* The column CenterText starts a line at: x - len(s)/2, len in bytes.
CenterStart(x, s) == x - (ByteLen(s) \div 2)

\* The inner loop of CenterText for line s, the y-th of the split (from 0).
CenterLineCalls(x, y0, y, s) ==
    [i \in 1..Len(s) |-> SetRuneCall(CenterStart(x, s) + (i - 1), y0 + y, s[i])]

RECURSIVE CenterTextFrom(_, _, _, _)
CenterTextFrom(lines, j, x, y0) ==
    IF j > Len(lines) THEN << >>
    ELSE CenterLineCalls(x, y0, j - 1, lines[j]) \o CenterTextFrom(lines, j + 1, x, y0)

CenterTextCalls(x, y0, t) == CenterTextFrom(Split(t), 1, x, y0)

\* Clear: SetRect over the whole grid.
ClearCalls(fb) == SetRectCalls(0, 0, fb.w, fb.h, StateDefault, Space)

\* NewFramebuffer: w*h zero cells, then Clear.
NewFramebuffer(w, h) ==
    LET zero == Framebuffer(w, h, [i \in 1..(w * h) |-> ZeroCell])
    IN  Run(zero, ClearCalls(zero))

----------------------------------------------------------------------------
(* Flush: what fmt.Printf writes, byte by byte.                            *)

\* %d: the decimal digits of k.
RECURSIVE DecNat(_)
DecNat(k) == IF k < 10 THEN <<48 + k>> ELSE DecNat(k \div 10) \o <<48 + (k % 10)>>

Dec(k) == IF k < 0 THEN <<45>> \o DecNat(-k) ELSE DecNat(k)

\* The UTF-8 encoding of a code point.
Utf8(r) ==
    IF r < 128 THEN <<r>>
    ELSE IF r < 2048 THEN <<192 + (r \div 64), 128 + (r % 64)>>
    ELSE IF r < 65536
    THEN <<224 + (r \div 4096), 128 + ((r \div 64) % 64), 128 + (r % 64)>>
    ELSE <<240 + (r \div 262144), 128 + ((r \div 4096) % 64),
           128 + ((r \div 64) % 64), 128 + (r % 64)>>

\* %c: the UTF-8 encoding of the rune, U+FFFD for what is no code point.
FmtC(r) ==
    IF r < 0 \/ r > 1114111 \/ (r >= 55296 /\ r <= 57343)
    THEN Utf8(65533)
    ELSE Utf8(r)

\* "\033[0;0H" and "\033[0m".
CursorHome == <<27, 91, 48, 59, 48, 72>>
SGRReset == <<27, 91, 48, 109>>

\* Printf("\033[%d;%dH", a, b).
CursorSeq(a, b) == <<27, 91>> \o Dec(a) \o <<59>> \o Dec(b) \o <<72>>

\* A Flush that skips the glyphs up to 32, the space among them.
FlushCellSkipsSpace(c) ==
    IF c.r <= 32 THEN << >>
    ELSE <<27, 91>> \o Dec(c.state.Attrib) \o <<59>> \o Dec(c.state.FGColor)
         \o <<59>> \o Dec(background(c.state.BGColor)) \o <<109>>
         \o FmtC(c.r) \o SGRReset

\* Printf("\033[%d;%d;%dm%c\033[0m", ...), skipped for a glyph below 32.
FlushCell(c) ==
    IF c.r < 32 THEN << >>
    ELSE <<27, 91>> \o Dec(c.state.Attrib) \o <<59>> \o Dec(c.state.FGColor)
         \o <<59>> \o Dec(background(c.state.BGColor)) \o <<109>>
         \o FmtC(c.r) \o SGRReset

RECURSIVE FlushRow(_, _, _)
FlushRow(fb, y, x) ==
    IF x >= fb.w THEN << >>
    ELSE FlushCell(fb.chars[y * fb.w + x + 1]) \o FlushRow(fb, y, x + 1)

\* A newline before every row, the first too.
RowSeparatorAlways(y) == <<Newline>>

\* if y != 0 { fmt.Print("\n") }
RowSeparator(y) == IF y # 0 THEN <<Newline>> ELSE << >>

RECURSIVE FlushRows(_, _)
FlushRows(fb, y) ==
    IF y >= fb.h THEN << >>
    ELSE RowSeparator(y) \o FlushRow(fb, y, 0) \o FlushRows(fb, y + 1)

\* The cursor sequence with column and row exchanged.
FlushCursorSwapped(cp) == CursorSeq(cp[1] + 1, cp[2] + 1)

\* The cursor sequence Flush ends with; cp[1], cp[2] are cursorPos[0], [1].
FlushCursor(cp) == CursorSeq(cp[2] + 1, cp[1] + 1)

FlushOut(fb, cp) == CursorHome \o FlushRows(fb, 0) \o SGRReset \o FlushCursor(cp)

----------------------------------------------------------------------------
(* History kept for the properties: `last` is the last call, its arguments *)
(* and the cells before it; `written` is, per grid position, the glyph and *)
(* the state last written there; `cursorArg` is the argument of the last   *)
(* SetCursor call.                                                         *)
(* `last.pre` is the framebuffer before the last call.                     *)

Grid(w, h) == (0..(w - 1)) \X (0..(h - 1))

ClearValue == cell(StateDefault, Space)

Call(op) ==
    [op |-> op, x |-> 0, y |-> 0, w |-> 0, h |-> 0, s |-> StateDefault, r |-> 0,
     t |-> << >>, dbl |-> FALSE, clr |-> FALSE, pre |-> f, ret |-> ClearValue]

Max(S) == CHOOSE m \in S : \A k \in S : k <= m

\* The primitive calls among `calls` that name position c and the field.
Hits(calls, c, kinds) ==
    {i \in 1..Len(calls) : calls[i].x = c[1] /\ calls[i].y = c[2] /\ calls[i].p \in kinds}

Written(prev, calls) ==
    [c \in DOMAIN prev |->
        LET g == Hits(calls, c, {"Set", "SetRune"})
            a == Hits(calls, c, {"Set", "Attrib"})
        IN  cell(IF a = {} THEN prev[c].state ELSE calls[Max(a)].s,
                 IF g = {} THEN prev[c].r ELSE calls[Max(g)].r)]

----------------------------------------------------------------------------
(* The calls, as actions.                                                  *)

New(w, h) ==
    /\ f = NewFramebuffer(w, h)
    /\ cursorPos = <<0, 0>>
    /\ out = << >>
    /\ last = [op |-> "New", x |-> 0, y |-> 0, w |-> w, h |-> h, s |-> StateDefault,
               r |-> 0, t |-> << >>, dbl |-> FALSE, clr |-> FALSE,
               pre |-> Framebuffer(w, h, << >>),
               ret |-> ClearValue]
    /\ n = 0
    /\ written = [c \in Grid(w, h) |-> ClearValue]
    /\ cursorArg = <<0, 0>>

Draw(call, calls) ==
    /\ f' = Run(f, calls)
    /\ written' = Written(written, calls)
    /\ last' = call
    /\ out' = << >>
    /\ UNCHANGED <<cursorPos, cursorArg>>

GetCall(x, y) ==
    /\ last' = [Call("Get") EXCEPT !.x = x, !.y = y, !.ret = Get(f, x, y)]
    /\ out' = << >>
    /\ UNCHANGED <<f, written, cursorPos, cursorArg>>

SetAction(x, y, s, r) ==
    Draw([Call("Set") EXCEPT !.x = x, !.y = y, !.s = s, !.r = r],
         <<SetCall(x, y, s, r)>>)

SetRuneAction(x, y, r) ==
    Draw([Call("SetRune") EXCEPT !.x = x, !.y = y, !.r = r], <<SetRuneCall(x, y, r)>>)

SetRectAction(x0, y0, w, h, s, r) ==
    Draw([Call("SetRect") EXCEPT !.x = x0, !.y = y0, !.w = w, !.h = h, !.s = s, !.r = r],
         SetRectCalls(x0, y0, w, h, s, r))

AttribRectAction(x0, y0, w, h, s) ==
    Draw([Call("AttribRect") EXCEPT !.x = x0, !.y = y0, !.w = w, !.h = h, !.s = s],
         AttribRectCalls(x0, y0, w, h, s))

ASCIIRectAction(x0, y0, w, h, doubleWidth, clearInside) ==
    Draw([Call("ASCIIRect") EXCEPT !.x = x0, !.y = y0, !.w = w, !.h = h,
                                   !.dbl = doubleWidth, !.clr = clearInside],
         ASCIIRectCalls(x0, y0, w, h, doubleWidth, clearInside))

SetTextAction(x0, y0, t) ==
    Draw([Call("SetText") EXCEPT !.x = x0, !.y = y0, !.t = t], SetTextCalls(x0, y0, t))

CenterTextAction(x, y0, t) ==
    Draw([Call("CenterText") EXCEPT !.x = x, !.y = y0, !.t = t],
         CenterTextCalls(x, y0, t))

AttribTextAction(x0, y0, s, t) ==
    Draw([Call("AttribText") EXCEPT !.x = x0, !.y = y0, !.s = s, !.t = t],
         AttribTextCalls(x0, y0, s, t))

ClearAction ==
    /\ f' = Run(f, ClearCalls(f))
    /\ written' = [c \in DOMAIN written |-> ClearValue]
    /\ last' = Call("Clear")
    /\ out' = << >>
    /\ UNCHANGED <<cursorPos, cursorArg>>

SetCursor(x, y) ==
    /\ cursorPos' = <<x, y>>
    /\ out' = CursorSeq(y + 1, x + 1)
    /\ cursorArg' = <<x, y>>
    /\ last' = [Call("SetCursor") EXCEPT !.x = x, !.y = y]
    /\ UNCHANGED <<f, written>>

Flush ==
    /\ out' = FlushOut(f, cursorPos)
    /\ last' = Call("Flush")
    /\ UNCHANGED <<f, written, cursorPos, cursorArg>>

----------------------------------------------------------------------------
(* The terminal.  Standard output is attached to it: it reads every byte   *)
(* that is printed and obeys the four private-mode sequences the library   *)
(* prints.  The package `terminal` (IsTerminal, MakeRaw, Restore) is       *)
(* modelled from the specification: a mode is "cooked" or "raw", the saved *)
(* state is the mode that MakeRaw found, or "nil" when nothing is saved.   *)

HideCursorSeq == <<27, 91, 63, 50, 53, 108>>
ShowCursorSeq == <<27, 91, 63, 50, 53, 104>>
EnableMouseSeq == <<27, 91, 63, 49, 48, 48, 51, 104>>
ResetMouseSeq == <<27, 91, 63, 49, 48, 48, 51, 108>>

Modes == {"cooked", "raw"}

IsTerminal == isTerminal

MakeRaw(mode) == [state |-> mode, mode |-> "raw"]

Restore(state) == state

\* Does seq stand in bytes at position k?
Matches(bytes, k, seq) ==
    /\ k + Len(seq) - 1 <= Len(bytes)
    /\ SubSeq(bytes, k, k + Len(seq) - 1) = seq

\* The terminal, t = <<cursor visible, mouse reported>>, after it has read
\* bytes from position k on.
RECURSIVE TerminalFrom(_, _, _)
TerminalFrom(t, bytes, k) ==
    IF k > Len(bytes) THEN t
    ELSE TerminalFrom(
             IF Matches(bytes, k, HideCursorSeq) THEN <<FALSE, t[2]>>
             ELSE IF Matches(bytes, k, ShowCursorSeq) THEN <<TRUE, t[2]>>
             ELSE IF Matches(bytes, k, EnableMouseSeq) THEN <<t[1], TRUE>>
             ELSE IF Matches(bytes, k, ResetMouseSeq) THEN <<t[1], FALSE>>
             ELSE t,
             bytes, k + 1)

Terminal(bytes) == TerminalFrom(<<cursorVisible, mouseReporting>>, bytes, 1)

\* The terminal reads what the call printed.
Shown ==
    /\ cursorVisible' = Terminal(out')[1]
    /\ mouseReporting' = Terminal(out')[2]

Printf(bytes) == out' = bytes /\ Shown

\* Init; the three outcomes are: not a terminal, raw mode switched on, and
\* the switch failed (panic).
InitAction ==
    /\ last' = Call("Init")
    /\ UNCHANGED <<f, written, cursorPos, cursorArg>>
    /\ \/ /\ ~IsTerminal
          /\ initRet' = "ErrNotATerminal"
          /\ UNCHANGED <<termMode, oldTermState, cursorVisible, mouseReporting, out>>
       \/ /\ IsTerminal
          /\ oldTermState' = MakeRaw(termMode).state
          /\ termMode' = MakeRaw(termMode).mode
          /\ Printf(HideCursorSeq)
          /\ initRet' = "nil"
       \/ /\ IsTerminal
          /\ oldTermState' = "nil"
          /\ termMode' \in {termMode, MakeRaw(termMode).mode}
          /\ initRet' = "panic"
          /\ UNCHANGED <<cursorVisible, mouseReporting, out>>

StopKeepsMouse ==
    /\ termMode' = Restore(oldTermState)
    /\ Printf(ShowCursorSeq)
    /\ last' = Call("Stop")
    /\ UNCHANGED <<f, written, cursorPos, cursorArg, oldTermState>>

Stop ==
    /\ termMode' = Restore(oldTermState)
    /\ Printf(ShowCursorSeq \o ResetMouseSeq)
    /\ last' = Call("Stop")
    /\ UNCHANGED <<f, written, cursorPos, cursorArg, oldTermState>>

HideCursor ==
    /\ Printf(HideCursorSeq)
    /\ last' = Call("HideCursor")
    /\ UNCHANGED <<f, written, cursorPos, cursorArg, termMode, oldTermState>>

ShowCursor ==
    /\ Printf(ShowCursorSeq)
    /\ last' = Call("ShowCursor")
    /\ UNCHANGED <<f, written, cursorPos, cursorArg, termMode, oldTermState>>

EnableMouseEvents ==
    /\ Printf(EnableMouseSeq)
    /\ last' = Call("EnableMouseEvents")
    /\ UNCHANGED <<f, written, cursorPos, cursorArg, termMode, oldTermState>>

\* No call has been made and nothing is saved: the terminal is in mode m, it
\* shows the cursor or not (c), it reports the mouse or not (r).
TermStart(t, m, c, r) ==
    /\ isTerminal = t
    /\ termMode = m
    /\ cursorVisible = c
    /\ mouseReporting = r
    /\ oldTermState = "nil"
    /\ initRet = "none"
    /\ phase = "start"
    /\ before = [mode |-> m, cursorVisible |-> c, mouseReporting |-> r]

----------------------------------------------------------------------------
(* Scan codes and the key read loop.  A channel is the sequence of values  *)
(* it buffers, the oldest first; a channel of capacity 0 hands the value   *)
(* to the consumer in the send itself.                                     *)

\* One read of standard input that brought `bytes` into the 6-byte record.
ReadScanCode(bytes) == [i \in 1..6 |-> IF i <= Len(bytes) THEN bytes[i] ELSE 0]

\* Bytes are 8 bits wide: s[4] - 33 is computed modulo 2^8, then widened.
MouseCoords(sc) == <<(sc[5] - 33) % 256, (sc[6] - 33) % 256>>

MouseCoordsCall ==
    /\ coords' = MouseCoords(scan)
    /\ UNCHANGED scan

StartKeyReadLoop ==
    /\ pc = "idle"
    /\ pc' = "read"
    /\ UNCHANGED <<scan, readErr, keyChan, errChan, keyRecv, errRecv, reads>>

\* s, err := ReadScanCode(): standard input brings `bytes`, or the read
\* fails with e.
LoopRead(bytes, e) ==
    /\ pc = "read"
    /\ scan' = ReadScanCode(bytes)
    /\ readErr' = e
    /\ reads' = Append(reads, [s |-> scan', err |-> e])
    /\ pc' = IF e # "nil" THEN "sendErr" ELSE "sendKey"
    /\ UNCHANGED <<keyChan, errChan, keyRecv, errRecv>>

\* Where the loop goes after errChan <- err.
AfterSendErrFallsThrough == "sendKey"

AfterSendErr == "done"

\* errChan <- err; return
LoopSendErr ==
    /\ pc = "sendErr"
    /\ \/ /\ Len(errChan) < errCap
          /\ errChan' = Append(errChan, readErr)
          /\ UNCHANGED errRecv
       \/ /\ errCap = 0
          /\ errRecv' = Append(errRecv, readErr)
          /\ UNCHANGED errChan
    /\ pc' = AfterSendErr
    /\ UNCHANGED <<scan, readErr, keyChan, keyRecv, reads>>

\* keyChan <- s
LoopSendKey ==
    /\ pc = "sendKey"
    /\ \/ /\ Len(keyChan) < keyCap
          /\ keyChan' = Append(keyChan, scan)
          /\ UNCHANGED keyRecv
       \/ /\ keyCap = 0
          /\ keyRecv' = Append(keyRecv, scan)
          /\ UNCHANGED keyChan
    /\ pc' = "read"
    /\ UNCHANGED <<scan, readErr, errChan, errRecv, reads>>

\* The consumer: <-keyChan and <-errChan on a buffered channel.
RecvKey ==
    /\ keyChan # << >>
    /\ keyRecv' = Append(keyRecv, Head(keyChan))
    /\ keyChan' = Tail(keyChan)
    /\ UNCHANGED <<pc, scan, readErr, errChan, errRecv, reads>>

RecvErr ==
    /\ errChan # << >>
    /\ errRecv' = Append(errRecv, Head(errChan))
    /\ errChan' = Tail(errChan)
    /\ UNCHANGED <<pc, scan, readErr, keyChan, keyRecv, reads>>

\* No loop has been started; the channels have capacities k and e.
KeysStart(k, e) ==
    /\ pc = "idle"
    /\ scan = ReadScanCode(<< >>)
    /\ readErr = "nil"
    /\ keyChan = << >>
    /\ errChan = << >>
    /\ keyCap = k
    /\ errCap = e
    /\ keyRecv = << >>
    /\ errRecv = << >>
    /\ reads = << >>
    /\ coords = << >>

\* The states before any call of the terminal and input layers, for the
\* specifications of the drawing calls.
Quiet == TermStart(TRUE, "cooked", TRUE, FALSE) /\ KeysStart(0, 0)

----------------------------------------------------------------------------
(* Spec: a framebuffer of any size up to MaxW x MaxH, up to MaxSetup calls *)
(* of Set that write a bold 'A' somewhere on the grid, then one call of    *)
(* any drawing operation with arguments on, around and across the edges of *)
(* the grid.  n counts the calls of Set; it is MaxSetup + 1 after the last *)
(* call.                                                                   *)

States == {StateDefault, BoldRedOnBlue}
Glyphs == {1, 65, 233}
Pens == {<<StateDefault, 65>>, <<BoldRedOnBlue, 233>>, <<BoldWhiteOnBlack, 1>>}
RectPens == {<<StateDefault, 233>>, <<BoldWhiteOnBlack, 65>>}

RECURSIVE SeqsUpTo(_, _)
SeqsUpTo(S, k) ==
    IF k = 0 THEN {<< >>}
    ELSE LET shorter == SeqsUpTo(S, k - 1)
         IN  shorter \cup {Append(t, c) : t \in shorter, c \in S}

\* The strings of up to MaxLen code points among 'A', U+00E9 and '\n'.
Texts == SeqsUpTo({65, 233, Newline}, MaxLen)
\* Those of 'A' and '\n' only.
PlainTexts == SeqsUpTo({65, Newline}, MaxLen)

Init == Quiet /\ \E w \in 0..MaxW, h \in 0..MaxH : New(w, h)

Ready == n <= MaxSetup

Finish == n' = MaxSetup + 1 /\ UNCHANGED <<termVars, keyVars>>

Setup ==
    /\ n < MaxSetup
    /\ n' = n + 1
    /\ UNCHANGED <<termVars, keyVars>>
    /\ \E x \in 0..(f.w - 1), y \in 0..(f.h - 1) : SetAction(x, y, BoldRedOnBlue, 65)

DoGet == Ready /\ Finish /\ \E x \in -1..f.w, y \in -1..f.h : GetCall(x, y)

DoSet ==
    /\ Ready /\ Finish
    /\ \E x \in -1..f.w, y \in -1..f.h, p \in Pens : SetAction(x, y, p[1], p[2])

DoSetRune ==
    /\ Ready /\ Finish
    /\ \E x \in -1..f.w, y \in -1..f.h, r \in Glyphs : SetRuneAction(x, y, r)

DoSetRect ==
    /\ Ready /\ Finish
    /\ \E x0 \in -1..(f.w - 1), y0 \in -1..(f.h - 1),
          w \in -1..(f.w + 1), h \in -1..(f.h + 1), p \in RectPens :
          SetRectAction(x0, y0, w, h, p[1], p[2])

DoAttribRect ==
    /\ Ready /\ Finish
    /\ \E x0 \in -1..(f.w - 1), y0 \in -1..(f.h - 1),
          w \in -1..(f.w + 1), h \in -1..(f.h + 1), s \in States :
          AttribRectAction(x0, y0, w, h, s)

DoASCIIRect ==
    /\ Ready /\ Finish
    /\ \E x0 \in -1..(f.w - 1), y0 \in -1..(f.h - 1),
          w \in -1..(f.w + 1), h \in -1..(f.h + 1), d \in BOOLEAN, c \in BOOLEAN :
          ASCIIRectAction(x0, y0, w, h, d, c)

DoSetText ==
    /\ Ready /\ Finish
    /\ \E x0 \in -1..(f.w - 1), y0 \in -1..(f.h - 1), t \in Texts :
          SetTextAction(x0, y0, t)

DoCenterText ==
    /\ Ready /\ Finish
    /\ \E x \in 0..f.w, y0 \in -1..(f.h - 1), t \in Texts : CenterTextAction(x, y0, t)

DoAttribText ==
    /\ Ready /\ Finish
    /\ \E x0 \in -1..(f.w - 1), y0 \in -1..(f.h - 1), t \in PlainTexts :
          AttribTextAction(x0, y0, BoldWhiteOnBlack, t)

DoClear == Ready /\ Finish /\ ClearAction

Next ==
    \/ Setup
    \/ DoGet
    \/ DoSet
    \/ DoSetRune
    \/ DoSetRect
    \/ DoAttribRect
    \/ DoASCIIRect
    \/ DoSetText
    \/ DoCenterText
    \/ DoAttribText
    \/ DoClear

Spec == Init /\ [][Next]_vars

----------------------------------------------------------------------------
(* SpecFlush: a framebuffer of any size up to FlushMaxW x FlushMaxH, and   *)
(* FlushMaxOps calls among Set, Clear, SetCursor and Flush.  n counts the  *)
(* calls.                                                                  *)

FlushPens ==
    {<<BoldRedOnBlue, 65>>, <<StateDefault, Newline>>, <<BoldWhiteOnBlack, 9472>>}

InitFlush == Quiet /\ \E w \in 0..FlushMaxW, h \in 0..FlushMaxH : New(w, h)

More == n < FlushMaxOps /\ n' = n + 1 /\ UNCHANGED <<termVars, keyVars>>

FlushSet ==
    /\ More
    /\ \E x \in 0..(f.w - 1), y \in 0..(f.h - 1), p \in FlushPens :
          SetAction(x, y, p[1], p[2])

FlushClear == More /\ ClearAction

FlushSetCursor == More /\ \E x \in {0, 9}, y \in {0, 1} : SetCursor(x, y)

FlushFlush == More /\ Flush

NextFlush == FlushSet \/ FlushClear \/ FlushSetCursor \/ FlushFlush

SpecFlush == InitFlush /\ [][NextFlush]_vars

----------------------------------------------------------------------------
(* SpecScenario: the first end-to-end scenario of the specification.  A    *)
(* framebuffer of 3 x 1 cells, and ScenarioOps calls among Flush and Set   *)
(* with the three cells of the scenario.                                   *)

ScenarioPens ==
    {<<CellState(AttrBold, ColorRed, ColorBlue), 65>>,
     <<CellState(AttrNone, ColorDefault, ColorDefault), 66>>,
     <<CellState(AttrNone, ColorDefault, ColorDefault), 1>>}

InitScenario == Quiet /\ New(3, 1)

Another == n < ScenarioOps /\ n' = n + 1 /\ UNCHANGED <<termVars, keyVars>>

ScenarioSet ==
    /\ Another
    /\ \E x \in 0..(f.w - 1), p \in ScenarioPens : SetAction(x, 0, p[1], p[2])

ScenarioFlush == Another /\ Flush

NextScenario == ScenarioSet \/ ScenarioFlush

SpecScenario == InitScenario /\ [][NextScenario]_vars

----------------------------------------------------------------------------
(* SpecTerm: a terminal or not, in any mode, showing the cursor or not,    *)
(* reporting the mouse or not; a framebuffer of one cell; Init, then       *)
(* TermMaxOps calls among HideCursor, ShowCursor, EnableMouseEvents,       *)
(* SetCursor, Set and Flush, then Stop.  n counts the calls in between.    *)

TermGlyphs == {63, 108}

InitTerm ==
    /\ New(1, 1)
    /\ KeysStart(0, 0)
    /\ \E t \in BOOLEAN, m \in Modes, c \in BOOLEAN, r \in BOOLEAN : TermStart(t, m, c, r)

Running ==
    /\ phase = "running"
    /\ n < TermMaxOps
    /\ n' = n + 1
    /\ UNCHANGED <<isTerminal, initRet, phase, before, keyVars>>

TermInit ==
    /\ phase = "start"
    /\ InitAction
    /\ phase' = CASE initRet' = "nil" -> "running"
                  [] initRet' = "ErrNotATerminal" -> "failed"
                  [] OTHER -> "aborted"
    /\ UNCHANGED <<n, isTerminal, before, keyVars>>

TermHideCursor == Running /\ HideCursor

TermShowCursor == Running /\ ShowCursor

TermEnableMouseEvents == Running /\ EnableMouseEvents

TermSetCursor ==
    /\ Running
    /\ \E x \in {0, 9} : SetCursor(x, 0)
    /\ Shown
    /\ UNCHANGED <<termMode, oldTermState>>

TermSet ==
    /\ Running
    /\ \E r \in TermGlyphs : SetAction(0, 0, StateDefault, r)
    /\ Shown
    /\ UNCHANGED <<termMode, oldTermState>>

TermFlush ==
    /\ Running
    /\ Flush
    /\ Shown
    /\ UNCHANGED <<termMode, oldTermState>>

TermStop ==
    /\ phase = "running"
    /\ phase' = "stopped"
    /\ Stop
    /\ UNCHANGED <<n, isTerminal, initRet, before, keyVars>>

NextTerm ==
    \/ TermInit
    \/ TermHideCursor
    \/ TermShowCursor
    \/ TermEnableMouseEvents
    \/ TermSetCursor
    \/ TermSet
    \/ TermFlush
    \/ TermStop

SpecTerm == InitTerm /\ [][NextTerm]_vars

----------------------------------------------------------------------------
(* SpecKeys: the key read loop and its consumer.  Standard input brings,   *)
(* at each of up to MaxReads reads, one of three events or an error; the   *)
(* caller's channels have any capacity up to MaxCap; the consumer receives *)
(* whenever it likes.                                                      *)

\* The key 'a', the up arrow, a mouse-down record, and a read that brings
\* no byte (end of input) without failing.
Inputs == {<<97>>, <<27, 91, 65>>, <<27, 91, 77, 32, 40, 50>>, << >>}

Errors == {"EIO"}

InitKeys ==
    /\ New(0, 0)
    /\ TermStart(TRUE, "cooked", TRUE, FALSE)
    /\ \E k \in 0..MaxCap, e \in 0..MaxCap : KeysStart(k, e)

KeysOnly == UNCHANGED <<fbVars, termVars, keyCap, errCap, coords>>

KeysStartKeyReadLoop == StartKeyReadLoop /\ KeysOnly

KeysRead ==
    /\ Len(reads) < MaxReads
    /\ \/ \E bytes \in Inputs : LoopRead(bytes, "nil")
       \/ \E e \in Errors : LoopRead(<< >>, e)
    /\ KeysOnly

KeysSendKey == LoopSendKey /\ KeysOnly

KeysSendErr == LoopSendErr /\ KeysOnly

KeysRecvKey == RecvKey /\ KeysOnly

KeysRecvErr == RecvErr /\ KeysOnly

NextKeys ==
    \/ KeysStartKeyReadLoop
    \/ KeysRead
    \/ KeysSendKey
    \/ KeysSendErr
    \/ KeysRecvKey
    \/ KeysRecvErr

SpecKeys == InitKeys /\ [][NextKeys]_vars

----------------------------------------------------------------------------
(* SpecMouse: one call of MouseCoords on a mouse-down record, the two      *)
(* coordinate bytes taking every value of a byte.                          *)

InitMouse ==
    /\ New(0, 0)
    /\ TermStart(TRUE, "cooked", TRUE, FALSE)
    /\ pc = "idle"
    /\ \E b4 \in 0..255, b5 \in 0..255 : scan = <<27, 91, 77, 32, b4, b5>>
    /\ readErr = "nil"
    /\ keyChan = << >>
    /\ errChan = << >>
    /\ keyCap = 0
    /\ errCap = 0
    /\ keyRecv = << >>
    /\ errRecv = << >>
    /\ reads = << >>
    /\ coords = << >>

MouseMouseCoords ==
    /\ coords = << >>
    /\ MouseCoordsCall
    /\ UNCHANGED <<fbVars, termVars, pc, readErr, keyChan, errChan, keyCap, errCap,
                   keyRecv, errRecv, reads>>

NextMouse == MouseMouseCoords

SpecMouse == InitMouse /\ [][NextMouse]_vars

----------------
(* Properties of the drawing calls (Spec).                                 *)

OutOfGrid(x, y) == x < 0 \/ y < 0 \/ x >= f.w \/ y >= f.h

\* The cell at column x, row y of the grid before and after the last call.
Before(x, y) == last.pre.chars[y * last.pre.w + x + 1]
After(x, y) == f.chars[y * f.w + x + 1]

SameSize == f.w = last.pre.w /\ f.h = last.pre.h /\ Len(f.chars) = f.w * f.h

\* C1: after NewFramebuffer and any drawing calls, Get(x, y) of every
\* position of the grid is the glyph last written there and the state last
\* written there, or (' ', StateDefault) if nothing was written since
\* construction or the last Clear; Set(x, y, S, r) makes it (r, S) and a
\* SetRune(x, y, r') makes it (r', S) for the state S the cell had.
C1_GetReturnsLastWritten ==
    /\ DOMAIN written = Grid(f.w, f.h)
    /\ \A c \in Grid(f.w, f.h) : Get(f, c[1], c[2]) = written[c]
    /\ (last.op = "Set" /\ ~OutOfGrid(last.x, last.y))
          => Get(f, last.x, last.y) = cell(last.s, last.r)
    /\ (last.op = "SetRune" /\ ~OutOfGrid(last.x, last.y))
          => Get(f, last.x, last.y) = cell(Get(last.pre, last.x, last.y).state, last.r)

\* A SetRune on a cell that a Set gave another glyph and a state other than
\* the default.
C1_Witness ==
    /\ last.op = "SetRune" /\ ~OutOfGrid(last.x, last.y)
    /\ Get(last.pre, last.x, last.y).state = BoldRedOnBlue
    /\ Get(last.pre, last.x, last.y).r # last.r
    /\ Get(f, last.x, last.y) = cell(BoldRedOnBlue, last.r)

\* C2: outside the grid Get returns (' ', default state), and Set and SetRune
\* leave every cell, the width and the height as they were.
C2_OutsideIsSilent ==
    /\ \A x \in -2..(f.w + 2), y \in -2..(f.h + 2) :
          OutOfGrid(x, y) => Get(f, x, y) = cell(StateDefault, Space)
    /\ (last.op = "Get" /\ OutOfGrid(last.x, last.y))
          => last.ret = cell(StateDefault, Space)
    /\ (last.op \in {"Set", "SetRune"} /\ OutOfGrid(last.x, last.y))
          => f = last.pre
    /\ SameSize

\* A Set just right of the first row of a grid with a second row whose
\* first cell is not blank: the position x + y*w names that cell.
C2_Witness ==
    /\ last.op = "Set" /\ last.x = f.w /\ last.y = 0
    /\ f.w >= 1 /\ f.h >= 2
    /\ Get(f, 0, 1) # cell(last.s, last.r)
    /\ Get(f, 0, 1) # ClearValue

InRect(x, y) ==
    /\ last.x <= x /\ x < last.x + last.w
    /\ last.y <= y /\ y < last.y + last.h

\* C3: SetRect, AttribRect and ASCIIRect change no cell outside the
\* rectangle [x0, x0+w) x [y0, y0+h); AttribRect changes no glyph and
\* ASCIIRect changes no state.
C3_RectFrame ==
    last.op \in {"SetRect", "AttribRect", "ASCIIRect"} =>
        /\ SameSize
        /\ \A c \in Grid(f.w, f.h) :
              /\ ~InRect(c[1], c[2]) => After(c[1], c[2]) = Before(c[1], c[2])
              /\ last.op = "AttribRect" => After(c[1], c[2]).r = Before(c[1], c[2]).r
              /\ last.op = "ASCIIRect"
                    => After(c[1], c[2]).state = Before(c[1], c[2]).state

\* A rectangle that starts left of the grid and ends inside it: it gives a
\* written cell another state, and the grid has a cell outside it.
C3_Witness ==
    /\ last.op = "AttribRect" /\ last.x < 0 /\ last.w = 2 /\ last.h >= 1
    /\ \E c \in Grid(f.w, f.h) :
          /\ InRect(c[1], c[2])
          /\ After(c[1], c[2]).state # Before(c[1], c[2]).state
          /\ After(c[1], c[2]).r = 65
    /\ \E c \in Grid(f.w, f.h) : ~InRect(c[1], c[2])

Charset(doubleWidth) == IF doubleWidth THEN doubleWidthCharset ELSE singleWidthCharset

\* The glyph the border of the last ASCIIRect call has at <<x, y>>, a
\* position of its rectangle; charset[i] is Charset(...)[i + 1].
BorderGlyph(x, y) ==
    LET cs == Charset(last.dbl)
        x1 == last.x + last.w - 1
        y1 == last.y + last.h - 1
    IN  CASE x = last.x /\ y = last.y -> cs[3]
          [] x = x1 /\ y = last.y -> cs[4]
          [] x = last.x /\ y = y1 -> cs[5]
          [] x = x1 /\ y = y1 -> cs[6]
          [] x \notin {last.x, x1} /\ y \in {last.y, y1} -> cs[1]
          [] x \in {last.x, x1} /\ y \notin {last.y, y1} -> cs[2]
          [] OTHER -> IF last.clr THEN Space ELSE Before(x, y).r

\* C8: ASCIIRect(x0, y0, w, h, ...) with w >= 2 and h >= 2, at any anchor,
\* leaves the corners [2], [3], [4], [5] of the charset at the corners of
\* the rectangle, [0] on the rest of its first and last row, [1] on the rest
\* of its first and last column, and the interior as it was, or ' ' when
\* clearInside is set.
C8_ASCIIRectBorder ==
    (last.op = "ASCIIRect" /\ last.w >= 2 /\ last.h >= 2) =>
        \A c \in Grid(f.w, f.h) :
            InRect(c[1], c[2]) => After(c[1], c[2]).r = BorderGlyph(c[1], c[2])

\* A 2 x 2 box anchored at (1, 1), whose top left corner is on the grid, and
\* a 3 x 3 box anchored at (-1, -1), whose interior cell (0, 0) held a glyph.
C8_Witness ==
    /\ last.op = "ASCIIRect"
    /\ \/ /\ last.x = 1 /\ last.y = 1 /\ last.w = 2 /\ last.h = 2
          /\ f.w = 2 /\ f.h = 2
          /\ After(1, 1).r = Charset(last.dbl)[3]
       \/ /\ last.x = -1 /\ last.y = -1 /\ last.w = 3 /\ last.h = 3
          /\ f.w = 2 /\ f.h = 2 /\ last.clr
          /\ Before(0, 0).r = 65 /\ After(0, 0).r = Space
          /\ After(1, 1).r = Charset(last.dbl)[6]

Min(S) == CHOOSE m \in S : \A k \in S : m <= k

\* For the code point at index i of string t: the number of '\n' before it,
\* its index in its line (from 0), and the number of code points of its line.
Row(t, i) == Cardinality({k \in 1..(i - 1) : t[k] = Newline})
LineStart(t, i) == Max({0} \cup {k \in 1..(i - 1) : t[k] = Newline})
LineEnd(t, i) == Min({Len(t) + 1} \cup {k \in (i + 1)..Len(t) : t[k] = Newline})
Col(t, i) == i - LineStart(t, i) - 1
LineLen(t, i) == LineEnd(t, i) - LineStart(t, i) - 1

\* The indices of the code points of last.t placed at <<x, y>> when the
\* code point at index i goes to column Column(i).
Placed(Column(_), x, y) ==
    {i \in 1..Len(last.t) :
        /\ last.t[i] # Newline
        /\ Column(i) = x
        /\ last.y + Row(last.t, i) = y}

\* The grid after the last call has the code points of last.t at the
\* columns Column gives, and is otherwise as before.
TextPlacedBy(Column(_)) ==
    /\ SameSize
    /\ \A c \in Grid(f.w, f.h) :
          LET here == Placed(Column, c[1], c[2])
          IN  /\ After(c[1], c[2]).state = Before(c[1], c[2]).state
              /\ After(c[1], c[2]).r =
                    IF here = {} THEN Before(c[1], c[2]).r ELSE last.t[Max(here)]

CenterColumn(i) == last.x - (LineLen(last.t, i) \div 2) + Col(last.t, i)

\* C9: CenterText(x, y0, s) puts the k-th code point of the j-th line of s
\* at column x - n/2 + k, row y0 + j, n the number of code points of the
\* line; it clips at the edges and changes no state.
C9_CenterTextByCodePoints == last.op = "CenterText" => TextPlacedBy(CenterColumn)

TextColumn(i) == last.x + Col(last.t, i)

\* C10: SetText(x0, y0, s) changes glyphs only, and only at the positions
\* (x0 + k, y0 + j) of the grid, j the number of '\n' before the code point
\* and k its index since the last '\n'; no state changes.
C10_SetTextFrame == last.op = "SetText" => TextPlacedBy(TextColumn)

\* "A\n" and a second line: the code point after the '\n' lands at column
\* x0 of the next row, on a cell whose state is not the default, and the
\* 'A' lands on the last column of the row above.
C10_Witness ==
    /\ last.op = "SetText" /\ Len(last.t) = 3
    /\ last.t[1] = 65 /\ last.t[2] = Newline /\ last.t[3] = 233
    /\ last.x = f.w - 1 /\ last.y = 0 /\ f.w = 2 /\ f.h = 2
    /\ Before(last.x, 1) = cell(BoldRedOnBlue, 65)
    /\ After(last.x, 1) = cell(BoldRedOnBlue, 233)
    /\ After(last.x, 0).r = 65
    /\ After(0, 1) = Before(0, 1)

----------------------------------------------------------------------------
(* Properties of Flush (SpecFlush, SpecScenario).                          *)

RECURSIVE Flatten(_)
Flatten(ss) == IF ss = << >> THEN << >> ELSE Head(ss) \o Flatten(Tail(ss))

\* ESC [ <attr> ; <fg> ; <bg+10> m <glyph> ESC [ 0 m
Group(c) ==
    <<27, 91>> \o Dec(c.state.Attrib) \o <<59>> \o Dec(c.state.FGColor) \o <<59>>
    \o Dec(c.state.BGColor + 10) \o <<109>> \o Utf8(c.r) \o <<27, 91, 48, 109>>

\* Row by row, a newline before every row but the first, and in each row
\* the groups of its cells with a glyph of 32 or more.
ExpectedBody ==
    Flatten([y \in 1..f.h |->
        (IF y = 1 THEN << >> ELSE <<10>>)
        \o Flatten([x \in 1..f.w |->
              IF Get(f, x - 1, y - 1).r >= 32 THEN Group(Get(f, x - 1, y - 1))
              ELSE << >>])])

\* C4: between the leading cursor-home and the final SGR reset, Flush emits
\* in row-major order one group ESC[<attr>;<fg>;<bg+10>m<glyph>ESC[0m per
\* cell whose glyph is 32 or more, nothing for a cell whose glyph is below
\* 32, and one newline before every row except the first.
C4_FlushBody ==
    last.op = "Flush" =>
        LET b == Len(ExpectedBody)
            rest == SubSeq(out, 11 + b, Len(out))
        IN  /\ Len(out) >= 6 + b + 4 + 6
            /\ SubSeq(out, 1, 6) = <<27, 91, 48, 59, 48, 72>>
            /\ SubSeq(out, 7, 6 + b) = ExpectedBody
            /\ SubSeq(out, 7 + b, 10 + b) = <<27, 91, 48, 109>>
            /\ rest[1] = 27 /\ rest[2] = 91 /\ rest[Len(rest)] = 72
            /\ \A i \in 1..Len(rest) : rest[i] # 109

HasGlyph(r) == \E i \in 1..Len(f.chars) : f.chars[i].r = r

\* A flush of two rows that hold a box-drawing glyph of three bytes, a
\* control character and blanks.
C4_Witness ==
    /\ last.op = "Flush" /\ f.h = 2 /\ f.w >= 2
    /\ HasGlyph(9472) /\ HasGlyph(Newline) /\ HasGlyph(Space)

\* New(3, 1), Set(0,0,{Bold,Red,Blue},'A'), Set(1,0,{None,Default,Default},'B'),
\* Set(2,0,{None,Default,Default},U+0001), Flush, the cursor at (0, 0).
Scenario ==
    /\ last.op = "Flush" /\ f.w = 3 /\ f.h = 1 /\ cursorPos = <<0, 0>>
    /\ f.chars = <<cell(CellState(AttrBold, ColorRed, ColorBlue), 65),
                   cell(CellState(AttrNone, ColorDefault, ColorDefault), 66),
                   cell(CellState(AttrNone, ColorDefault, ColorDefault), 1)>>

\* C5 as stated: the output is ESC[0;0H ESC[1;31;44mAESC[0m
\* ESC[0;37;49mBESC[0m ESC[0m ESC[1;1H.
C5_Original ==
    Scenario =>
        out = <<27, 91, 48, 59, 48, 72>>
              \o <<27, 91, 49, 59, 51, 49, 59, 52, 52, 109, 65, 27, 91, 48, 109>>
              \o <<27, 91, 48, 59, 51, 55, 59, 52, 57, 109, 66, 27, 91, 48, 109>>
              \o <<27, 91, 48, 109>> \o <<27, 91, 49, 59, 49, 72>>

\* C5, amended: the output is ESC[0;0H ESC[1;31;44mAESC[0m
\* ESC[0;39;49mBESC[0m ESC[0m ESC[1;1H: the default foreground is 39.
C5_ScenarioOutput ==
    Scenario =>
        out = <<27, 91, 48, 59, 48, 72>>
              \o <<27, 91, 49, 59, 51, 49, 59, 52, 52, 109, 65, 27, 91, 48, 109>>
              \o <<27, 91, 48, 59, 51, 57, 59, 52, 57, 109, 66, 27, 91, 48, 109>>
              \o <<27, 91, 48, 109>> \o <<27, 91, 49, 59, 49, 72>>

\* The scenario, after exactly its four calls.
C5_Witness == Scenario /\ n = 4

Newlines(bytes) == Cardinality({i \in 1..Len(bytes) : bytes[i] = 10})

\* C6 as stated: the output of Flush holds H - 1 newline characters.
C6_Original == last.op = "Flush" => Newlines(out) = f.h - 1

\* C6, amended: the output of Flush holds H - 1 newline characters when
\* H >= 1, and none when H = 0.
C6_NewlineCount ==
    last.op = "Flush" => Newlines(out) = (IF f.h = 0 THEN 0 ELSE f.h - 1)

\* A flush of two rows that hold the glyph '\n' and an 'A'.
C6_Witness ==
    /\ last.op = "Flush" /\ f.h = 2 /\ f.w >= 1
    /\ HasGlyph(Newline) /\ HasGlyph(65)
    /\ Newlines(out) = 1

\* C7: every Flush output starts with ESC[0;0H and ends with ESC[0m and
\* ESC[<y+1>;<x+1>H for the argument (x, y) of the last SetCursor call, or
\* (0, 0); no drawing call and no Flush changes the remembered position.
C7_FlushEndsAtCursor ==
    /\ cursorPos = cursorArg
    /\ last.op = "Flush" =>
          LET tail == <<27, 91, 48, 109, 27, 91>> \o Dec(cursorArg[2] + 1) \o <<59>>
                      \o Dec(cursorArg[1] + 1) \o <<72>>
          IN  /\ Len(out) >= 6 + Len(tail)
              /\ SubSeq(out, 1, 6) = <<27, 91, 48, 59, 48, 72>>
              /\ SubSeq(out, Len(out) - Len(tail) + 1, Len(out)) = tail

\* A flush after SetCursor(9, 0) and a drawing call, ending ESC[1;10H.
C7_Witness ==
    /\ last.op = "Flush" /\ cursorArg = <<9, 0>> /\ n = 3
    /\ \E i \in 1..Len(f.chars) : f.chars[i] # ClearValue
    /\ SubSeq(out, Len(out) - 6, Len(out)) = <<27, 91, 49, 59, 49, 48, 72>>

----------------------------------------------------------------------------
(* Properties of the key read loop (SpecKeys).                             *)

\* What has been sent on a channel: what the consumer received from it,
\* then what it still buffers.
KeysSent == keyRecv \o keyChan
ErrsSent == errRecv \o errChan

Succeeded(rd) == rd.err = "nil"

\* The scan codes of the successful reads, in read order.
Successes == [i \in 1..Len(SelectSeq(reads, Succeeded)) |-> SelectSeq(reads, Succeeded)[i].s]

\* The reads that failed, as positions in read order.
Failures == {i \in 1..Len(reads) : ~Succeeded(reads[i])}

\* C11: the scan codes sent on keyChan are the successful reads in read
\* order, none dropped, duplicated or reordered (all of them but the one the
\* loop is about to send); no read follows a failed read; the error of the
\* failed read, and nothing else, is sent on errChan, once, and nothing is
\* sent on either channel after it.
C11_KeysInReadOrder ==
    /\ Failures \subseteq {Len(reads)}
    /\ KeysSent = IF pc = "sendKey" THEN SubSeq(Successes, 1, Len(Successes) - 1)
                  ELSE Successes
    /\ ErrsSent = IF pc = "done" THEN <<reads[Len(reads)].err>> ELSE << >>
    /\ (pc = "done") => Failures = {Len(reads)}
    /\ (pc = "sendErr") => Failures = {Len(reads)} /\ readErr = reads[Len(reads)].err
    /\ (pc \in {"idle", "read", "sendKey"}) => Failures = {}

C11_Witness ==
    /\ pc = "done"
    /\ Len(reads) = 3
    /\ keyRecv = <<ReadScanCode(<<27, 91, 65>>), ReadScanCode(<<97>>)>>
    /\ errRecv = <<"EIO">>
    /\ keyCap = 1

----------------------------------------------------------------------------
(* Properties of the terminal lifecycle (SpecTerm).                        *)

\* C12: Init on a standard input that is no terminal returns
\* ErrNotATerminal and leaves the terminal mode, the saved state and the
\* cursor visibility as they were; right after a successful Init the
\* terminal is in raw mode, the prior mode is saved and the cursor is hidden;
\* after Stop, whatever was called since Init, the terminal is in the mode it
\* had before Init, the cursor is visible and the mouse is not reported.
C12_InitStopLifecycle ==
    /\ (phase # "start" /\ ~isTerminal) =>
          /\ initRet = "ErrNotATerminal"
          /\ termMode = before.mode
          /\ oldTermState = "nil"
          /\ cursorVisible = before.cursorVisible
    /\ (initRet = "ErrNotATerminal") => ~isTerminal
    /\ (phase = "running" /\ n = 0) =>
          /\ initRet = "nil"
          /\ termMode = "raw"
          /\ oldTermState = before.mode
          /\ ~cursorVisible
    /\ (phase = "stopped") =>
          /\ termMode = before.mode
          /\ cursorVisible
          /\ ~mouseReporting

C12_Witness ==
    /\ phase = "stopped"
    /\ before = [mode |-> "cooked", cursorVisible |-> TRUE, mouseReporting |-> FALSE]
    /\ n >= 2
    /\ cursorPos = <<9, 0>>
    /\ last.op = "Stop"

----------------------------------------------------------------------------
(* Properties of the scan codes (SpecMouse).                               *)

\* C13: MouseCoords of a 6-byte scan code returns the pair of integers
\* (bytes[4] - 33, bytes[5] - 33), the mathematical differences, for every
\* value 0..255 of the two bytes.
C13_MouseCoordsDifference ==
    (coords # << >>) => coords = <<scan[5] - 33, scan[6] - 33>>

====
